---- MODULE Spec2Model ----
(***************************************************************************)
(* The from-scratch Haar cascade sketch of Haar_Cascade_classifier.ipynb:  *)
(* integral_image, HaarFeature.compute, WeakClassifier.predict,            *)
(* train_classifier, adaboost_train, detect_faces, CascadeStage.classify,  *)
(* HaarCascade.detect and sliding_window.                                  *)
(*                                                                         *)
(* A numpy 2-D array is a record [shape |-> <<rows, cols>>, data |-> d]    *)
(* with d[r][c] for r in 0..rows-1 and c in 0..cols-1.  Samples are grids  *)
(* of signed integers far from the 64-bit limits (np.array of Python ints  *)
(* is int64), so sums are exact.  A threshold produced by np.linspace is a *)
(* rational <<num, den>> with den > 0; an accuracy (correct / total) is a  *)
(* rational as well, and rationals are compared by cross-multiplication.   *)
(***************************************************************************)
EXTENDS Integers, Sequences, FiniteSets, TLC

VARIABLES
  pc,                \* position of the running function
  sample,            \* feature evaluation: the sample grid
  int_img,           \* feature evaluation: integral_image(sample), or None
  feature,           \* feature evaluation: the HaarFeature, or None
  value,             \* feature evaluation: feature.compute(int_img), or None
  prog,              \* training: the function called
  pos_imgs,          \* training: the positive samples
  neg_imgs,          \* training: the negative samples
  features,          \* adaboost_train: the features
  fi,                \* adaboost_train: position of "for feature in features"
  ti,                \* train_classifier: position of "for threshold in ..."
  pi,                \* train_classifier: position of "for polarity in [1, -1]"
  best_classifier,   \* train_classifier: best_classifier
  best_accuracy,     \* train_classifier: best_accuracy
  classifiers,       \* adaboost_train: classifiers
  result,            \* the value the function returned, or None
  exc,               \* the exception the function raised, or NoExc
  image,             \* detection: the image (detect), the large image (scan)
  cascade,           \* detection: the stages (detect, sliding_window) or the
                     \* classifiers (detect_faces)
  integral_img,      \* detect, detect_faces: the integral image, or None
  si,                \* detect, detect_faces: position of the loop
  evaluated,         \* probe: the predict calls made, <<stage, classifier>>
  window_size,       \* sliding_window: (w, h)
  step_size,         \* sliding_window: step_size
  win_y,             \* sliding_window: y of "for y in range(...)"
  win_x,             \* sliding_window: x of "for x in range(...)"
  visited,           \* probe: the window origins cascade.detect was run on
  detected_regions   \* sliding_window: detected_regions

featVars == <<sample, int_img, value>>

trainVars == <<prog, pos_imgs, neg_imgs, features, fi, ti, pi, best_classifier,
               best_accuracy, classifiers, exc>>

detectVars == <<image, cascade, integral_img, si, evaluated>>

scanVars == <<window_size, step_size, win_y, win_x, visited, detected_regions>>

vars == <<pc, feature, result, featVars, trainVars, detectVars, scanVars>>

\* Python's None, where an object (an array, a feature, a classifier) may stand
None == [none |-> TRUE]

\* no function called; no exception raised
NoProg == "none"

NoExc == "none"

(***************************************************************************)
(* Bounds of the model.                                                    *)
(***************************************************************************)
\* largest number of rows and of columns of an enumerated sample
MaxDim == 2
\* largest pixel value of an enumerated sample (pixels are 0..MaxPix)
MaxPix == 1

(***************************************************************************)
(* numpy arrays                                                            *)
(***************************************************************************)
Min(a, b) == IF a <= b THEN a ELSE b

NRows(a) == a.shape[1]

NCols(a) == a.shape[2]

\* the array with h rows and w columns whose entry (r, c) is f[r][c]
MkArray(h, w, f) ==
  [shape |-> <<h, w>>, data |-> [r \in 0..(h-1) |-> [c \in 0..(w-1) |-> f[r][c]]]]

\* f[lo] + f[lo+1] + ... + f[hi], 0 when the range is empty
RECURSIVE SumFn(_, _, _)
SumFn(f, lo, hi) == IF lo > hi THEN 0 ELSE f[lo] + SumFn(f, lo + 1, hi)

\* a[r0:r1, c0:c1].sum() for non-negative r0, r1, c0, c1: a slice is clipped
\* to the array, and the sum of an empty slice is 0
SliceSum(a, r0, r1, c0, c1) ==
  LET rlo == Min(r0, NRows(a))
      rhi == Min(r1, NRows(a)) - 1
      clo == Min(c0, NCols(a))
      chi == Min(c1, NCols(a)) - 1
  IN  SumFn([r \in rlo..rhi |-> SumFn(a.data[r], clo, chi)], rlo, rhi)

\* a[r0:r1, c0:c1] for non-negative r0, r1, c0, c1
Slice(a, r0, r1, c0, c1) ==
  LET rlo == Min(r0, NRows(a))
      rhi == Min(r1, NRows(a))
      clo == Min(c0, NCols(a))
      chi == Min(c1, NCols(a))
      h == IF rhi > rlo THEN rhi - rlo ELSE 0
      w == IF chi > clo THEN chi - clo ELSE 0
  IN  [shape |-> <<h, w>>,
       data |-> [r \in 0..(h-1) |-> [c \in 0..(w-1) |-> a.data[rlo + r][clo + c]]]]

\* entry (r, c) of a.cumsum(axis=0): the running sum down column c
RECURSIVE RunDown(_, _, _)
RunDown(a, r, c) ==
  IF r = 0 THEN a.data[0][c] ELSE RunDown(a, r - 1, c) + a.data[r][c]

\* entry (r, c) of a.cumsum(axis=1): the running sum along row r
RECURSIVE RunAcross(_, _, _)
RunAcross(a, r, c) ==
  IF c = 0 THEN a.data[r][0] ELSE RunAcross(a, r, c - 1) + a.data[r][c]

CumsumAxis0(a) ==
  [shape |-> a.shape,
   data |-> [r \in 0..(NRows(a)-1) |-> [c \in 0..(NCols(a)-1) |-> RunDown(a, r, c)]]]

CumsumAxis1(a) ==
  [shape |-> a.shape,
   data |-> [r \in 0..(NRows(a)-1) |-> [c \in 0..(NCols(a)-1) |-> RunAcross(a, r, c)]]]

\* a mutant of integral_image: the second cumsum is forgotten
integral_image_rows_only(img) == CumsumAxis0(img)

\* img.cumsum(axis=0).cumsum(axis=1)
integral_image(img) == CumsumAxis1(CumsumAxis0(img))

(***************************************************************************)
(* HaarFeature                                                             *)
(***************************************************************************)
FeatureTypes == {"two-rect", "three-rect", "four-rect"}

HaarFeature(feature_type, position, width, height) ==
  [feature_type |-> feature_type, position |-> position,
   width |-> width, height |-> height]

\* HaarFeature.compute: the two-rect response sums the ENTRIES OF int_img over
\* the two halves of the box; every other feature type returns 0
compute(self, img) ==
  LET x == self.position[1]
      y == self.position[2]
      w == self.width
      h == self.height
  IN  IF self.feature_type = "two-rect"
      THEN LET white == SliceSum(img, y, y + h, x, x + (w \div 2))
               black == SliceSum(img, y, y + h, x + (w \div 2), x + w)
           IN  white - black
      ELSE 0

(***************************************************************************)
(* The parts of the state a run does not use.                              *)
(***************************************************************************)
IdleFeature == sample = None /\ int_img = None /\ value = None

IdleTrain ==
  /\ pos_imgs = <<>> /\ neg_imgs = <<>> /\ features = <<>>
  /\ fi = 0 /\ ti = 0 /\ pi = 0
  /\ best_classifier = None /\ best_accuracy = None
  /\ classifiers = <<>> /\ exc = NoExc

IdleDetect ==
  /\ image = None /\ cascade = <<>> /\ integral_img = None
  /\ si = 0 /\ evaluated = <<>>

IdleScan ==
  /\ window_size = <<0, 0>> /\ step_size = 0 /\ win_y = 0 /\ win_x = 0
  /\ visited = <<>> /\ detected_regions = <<>>

(***************************************************************************)
(* Feature evaluation: integral_image(sample), then feature.compute.       *)
(***************************************************************************)
\* the sample of the end-to-end scenario
Example4x4 ==
  MkArray(4, 4, [r \in 0..3 |-> [c \in 0..3 |->
     IF r < 2 THEN (IF c < 2 THEN 1 ELSE 2) ELSE (IF c < 2 THEN 3 ELSE 4)]])

\* the features whose box lies inside sample s
FeaturesInside(s) ==
  { HaarFeature(t, <<x, y>>, w, h) :
      <<t, x, y, w, h>> \in
        { q \in FeatureTypes \X (0..(NCols(s)-1)) \X (0..(NRows(s)-1))
                 \X (1..NCols(s)) \X (1..NRows(s)) :
            q[2] + q[4] <= NCols(s) /\ q[3] + q[5] <= NRows(s) } }

\* the samples: every grid up to MaxDim x MaxDim over 0..MaxPix, and the 4x4
\* sample of the end-to-end scenario
InitFeature ==
  /\ pc = "loaded"
  /\ \/ \E h \in 1..MaxDim, w \in 1..MaxDim :
          \E g \in [0..(h-1) -> [0..(w-1) -> 0..MaxPix]] : sample = MkArray(h, w, g)
     \/ sample = Example4x4
  /\ int_img = None
  /\ feature = None
  /\ value = None
  /\ result = None
  /\ prog = NoProg
  /\ IdleTrain /\ IdleDetect /\ IdleScan

\* int_img = integral_image(img)
BuildIntegral ==
  /\ pc = "loaded"
  /\ int_img' = integral_image(sample)
  /\ pc' = "integral"
  /\ UNCHANGED <<sample, feature, value, result, trainVars, detectVars,
                 scanVars>>

\* feature.compute(int_img) for a feature inside the sample
ComputeFeature ==
  /\ pc = "integral"
  /\ \E f \in FeaturesInside(sample) :
       /\ feature' = f
       /\ value' = compute(f, int_img)
  /\ pc' = "computed"
  /\ UNCHANGED <<sample, int_img, result, trainVars, detectVars, scanVars>>

NextFeature == BuildIntegral \/ ComputeFeature

SpecFeature == InitFeature /\ [][NextFeature]_vars

(***************************************************************************)
(* Properties of integral_image and HaarFeature.compute                    *)
(***************************************************************************)
\* entry (r, c) of table t, with row -1 and column -1 taken as 0
At(t, r, c) == IF r < 0 \/ c < 0 THEN 0 ELSE t.data[r][c]

\* the four-corner inclusion-exclusion lookup of rows r0..r1, columns c0..c1
FourCorner(t, r0, c0, r1, c1) ==
  At(t, r1, c1) - At(t, r0 - 1, c1) - At(t, r1, c0 - 1) + At(t, r0 - 1, c0 - 1)

\* the sum of the raw pixels of rows r0..r1, columns c0..c1, one by one
RECURSIVE BruteSum(_, _)
BruteSum(s, cells) ==
  IF cells = {} THEN 0
  ELSE LET q == CHOOSE q \in cells : TRUE
       IN  s.data[q[1]][q[2]] + BruteSum(s, cells \ {q})

RectCells(r0, c0, r1, c1) == (r0..r1) \X (c0..c1)

\* C5: on the table integral_image returns, the four-corner lookup of every
\* rectangle inside the sample equals the brute-force sum of its raw pixels,
\* and every cell satisfies
\* I(x,y) = Image(x,y) + I(x-1,y) + I(x,y-1) - I(x-1,y-1).
C5_IntegralImageCorrect ==
  pc = "integral" =>
    /\ int_img.shape = sample.shape
    /\ \A r0 \in 0..(NRows(sample)-1), c0 \in 0..(NCols(sample)-1) :
         \A r1 \in r0..(NRows(sample)-1), c1 \in c0..(NCols(sample)-1) :
           FourCorner(int_img, r0, c0, r1, c1)
             = BruteSum(sample, RectCells(r0, c0, r1, c1))
    /\ \A r \in 0..(NRows(sample)-1), c \in 0..(NCols(sample)-1) :
         At(int_img, r, c) = sample.data[r][c] + At(int_img, r - 1, c)
                             + At(int_img, r, c - 1) - At(int_img, r - 1, c - 1)

\* C5 witness: the integral image of the 4x4 scenario sample is built, its
\* last entry is the sum of all sixteen pixels (40), and an interior
\* rectangle is answered by all four corners.
C5_Witness ==
  /\ pc = "integral"
  /\ sample = Example4x4
  /\ int_img.data[3][3] = 40
  /\ FourCorner(int_img, 2, 2, 3, 3) = 16

\* the columns of the left and of the right half of a feature's box
LeftCols(f) == f.position[1]..(f.position[1] + (f.width \div 2) - 1)

RightCols(f) == (f.position[1] + (f.width \div 2))..(f.position[1] + f.width - 1)

BoxRows(f) == f.position[2]..(f.position[2] + f.height - 1)

\* C6 (as claimed): compute on integral_image(sample) returns the sum of the
\* raw pixels of the left half of the box minus that of the right half; for
\* the 4x4 scenario sample and the full box that is 16 - 24 = -8.
C6_ComputeIsRawHalfDifference ==
  (pc = "computed" /\ feature.feature_type = "two-rect") =>
    /\ value = BruteSum(sample, BoxRows(feature) \X LeftCols(feature))
               - BruteSum(sample, BoxRows(feature) \X RightCols(feature))
    /\ (sample = Example4x4
        /\ feature = HaarFeature("two-rect", <<0, 0>>, 4, 4)) => value = -8

\* the sample with the pixel contents of the two halves of f's box exchanged
FlipHalves(s, f) ==
  LET half == f.width \div 2
  IN  MkArray(NRows(s), NCols(s),
        [r \in 0..(NRows(s)-1) |-> [c \in 0..(NCols(s)-1) |->
           IF r \in BoxRows(f) /\ c \in LeftCols(f) THEN s.data[r][c + half]
           ELSE IF r \in BoxRows(f) /\ c \in RightCols(f) THEN s.data[r][c - half]
           ELSE s.data[r][c]]])

\* C8 (as claimed): for a two-rect feature of even width, compute on the
\* integral image of the sample with the two halves exchanged is the negation
\* of compute on the integral image of the sample.
C8_FlipNegates ==
  (pc = "computed" /\ feature.feature_type = "two-rect"
     /\ feature.width % 2 = 0) =>
    compute(feature, integral_image(FlipHalves(sample, feature))) = -value

\* what compute returns in the scenario of C6: 48 - 142 = -94
ScenarioResponse ==
  (pc = "computed" /\ sample = Example4x4
     /\ feature = HaarFeature("two-rect", <<0, 0>>, 4, 4)) => value = -94

(***************************************************************************)
(* WeakClassifier and the trainers                                         *)
(***************************************************************************)
WeakClassifier(f, threshold, polarity) ==
  [feature |-> f, threshold |-> threshold, polarity |-> polarity]

\* WeakClassifier.predict: 1 if polarity * feature_value < polarity * threshold
\* else 0, the threshold being the rational threshold[1] / threshold[2]
predict(self, img) ==
  LET feature_value == compute(self.feature, img)
  IN  IF self.polarity * feature_value * self.threshold[2]
           < self.polarity * self.threshold[1]
      THEN 1 ELSE 0

\* the number of points of np.linspace(-1, 1, num=10)
LinspaceNum == 10

\* np.linspace(start, stop, num): point k (from 1) is
\* start + (k-1) * (stop - start) / (num - 1)
Linspace(start, stop, num) ==
  [k \in 1..num |-> <<start * (num - 1) + (k - 1) * (stop - start), num - 1>>]

Thresholds == Linspace(-1, 1, LinspaceNum)

\* for polarity in [1, -1]
Polarities == <<1, -1>>

\* p < q for rationals with positive denominators
RatLess(p, q) == p[1] * q[2] < q[1] * p[2]

\* a mutant of IsBetter: accuracy >= best_accuracy
IsBetterOrEqual(accuracy, best) == ~RatLess(accuracy, best)

\* accuracy > best_accuracy
IsBetter(accuracy, best) == RatLess(best, accuracy)

\* a mutant of InitialBestAccuracy: best_accuracy = 1
InitialBestAccuracyOne == <<1, 1>>

\* best_accuracy = 0
InitialBestAccuracy == <<0, 1>>

\* a mutant of DivisionRaises: an error as soon as one of the two sets is empty
EitherSetEmpty(num_pos, num_neg) == num_pos = 0 \/ num_neg = 0

\* correct / (len(pos_imgs) + len(neg_imgs)) raises ZeroDivisionError
DivisionRaises(num_pos, num_neg) == num_pos + num_neg = 0

\* train_classifier's correct: the positives predicted 1 and the negatives
\* predicted 0, each image turned into its integral image first
CorrectOnImages(classifier, pos, neg) ==
  Cardinality({i \in 1..Len(pos) : predict(classifier, integral_image(pos[i])) = 1})
  + Cardinality({i \in 1..Len(neg) : predict(classifier, integral_image(neg[i])) = 0})

\* adaboost_train's sum(predictions): classifier.predict(img) for the
\* positives and 1 - classifier.predict(img) for the negatives, its arguments
\* being integral images already
SumPredictions(classifier, pos, neg) ==
  SumFn([i \in 1..Len(pos) |-> predict(classifier, pos[i])], 1, Len(pos))
  + SumFn([i \in 1..Len(neg) |-> 1 - predict(classifier, neg[i])], 1, Len(neg))

\* the samples the trainers are run on: 1x2 grids <<1, b>>; the two-rect
\* feature over the whole grid answers -b on the integral image of <<1, b>>
TrainPixels == {-1, 0, 2}

TrainSample(b) ==
  MkArray(1, 2, [r \in {0} |-> [c \in 0..1 |-> IF c = 0 THEN 1 ELSE b]])

TrainSamples == { TrainSample(b) : b \in TrainPixels }

\* the sample lists of up to n samples; the trainers only count over a list,
\* so each multiset of samples is enumerated in one order
SampleLists(n) ==
  { [i \in 1..Len(bs) |-> TrainSample(bs[i])] :
      bs \in { q \in UNION { [1..k -> TrainPixels] : k \in 0..n } :
                \A i \in 1..(Len(q) - 1) : q[i] <= q[i + 1] } }

\* the same lists, each sample replaced by its integral image
IntegralLists(n) ==
  { [i \in 1..Len(q) |-> integral_image(q[i])] : q \in SampleLists(n) }

TrainFeatures ==
  { HaarFeature("two-rect", <<0, 0>>, 2, 1),
    HaarFeature("three-rect", <<0, 0>>, 2, 1) }

\* largest number of positive and of negative samples
MaxSamples == 2
\* largest number of features given to adaboost_train
MaxFeatures == 2

SeqsUpTo(S, n) == UNION { [1..k -> S] : k \in 0..n }

InitTrain ==
  /\ IdleFeature /\ IdleDetect /\ IdleScan
  /\ prog \in {"train_classifier", "adaboost_train"}
  /\ IF prog = "train_classifier"
     THEN /\ pos_imgs \in SampleLists(MaxSamples)
          /\ neg_imgs \in SampleLists(MaxSamples)
          /\ feature \in TrainFeatures
          /\ features = <<>>
     ELSE /\ pos_imgs \in IntegralLists(MaxSamples)
          /\ neg_imgs \in IntegralLists(MaxSamples)
          /\ feature = None
          /\ features \in SeqsUpTo(TrainFeatures, MaxFeatures)
  /\ pc = "called"
  /\ fi = 0 /\ ti = 0 /\ pi = 0
  /\ best_classifier = None /\ best_accuracy = None
  /\ classifiers = <<>> /\ exc = NoExc /\ result = None

\* train_classifier: best_classifier = None; best_accuracy = 0
TrainEnter ==
  /\ prog = "train_classifier" /\ pc = "called"
  /\ best_classifier' = None
  /\ best_accuracy' = InitialBestAccuracy
  /\ ti' = 1 /\ pi' = 1
  /\ pc' = "candidates"
  /\ UNCHANGED <<feature, result, featVars, detectVars, scanVars, prog,
                 pos_imgs, neg_imgs, features,
                 fi, classifiers, exc>>

\* train_classifier: the body of the two loops for one (threshold, polarity)
TrainCandidate ==
  /\ prog = "train_classifier" /\ pc = "candidates"
  /\ ti <= LinspaceNum
  /\ LET classifier == WeakClassifier(feature, Thresholds[ti], Polarities[pi])
         correct == CorrectOnImages(classifier, pos_imgs, neg_imgs)
         accuracy == <<correct, Len(pos_imgs) + Len(neg_imgs)>>
     IN  IF DivisionRaises(Len(pos_imgs), Len(neg_imgs))
         THEN /\ exc' = "ZeroDivisionError"
              /\ pc' = "raised"
              /\ UNCHANGED <<best_classifier, best_accuracy, ti, pi>>
         ELSE /\ IF IsBetter(accuracy, best_accuracy)
                 THEN /\ best_accuracy' = accuracy
                      /\ best_classifier' = classifier
                 ELSE UNCHANGED <<best_classifier, best_accuracy>>
              /\ IF pi < Len(Polarities)
                 THEN pi' = pi + 1 /\ ti' = ti
                 ELSE pi' = 1 /\ ti' = ti + 1
              /\ UNCHANGED <<exc, pc>>
  /\ UNCHANGED <<feature, result, featVars, detectVars, scanVars, prog,
                 pos_imgs, neg_imgs, features,
                 fi, classifiers>>

\* train_classifier: return best_classifier
TrainReturn ==
  /\ prog = "train_classifier" /\ pc = "candidates"
  /\ ti > LinspaceNum
  /\ result' = best_classifier
  /\ pc' = "returned"
  /\ UNCHANGED <<feature, featVars, trainVars, detectVars, scanVars>>

\* adaboost_train: candidates i..2*LinspaceNum of the two loops for feature f,
\* entered with best_classifier = best and best_accuracy = acc
RECURSIVE SearchFrom(_, _, _, _, _, _)
SearchFrom(f, pos, neg, i, best, acc) ==
  IF i > LinspaceNum * Len(Polarities) THEN best
  ELSE LET classifier == WeakClassifier(f, Thresholds[((i - 1) \div Len(Polarities)) + 1],
                                        Polarities[((i - 1) % Len(Polarities)) + 1])
           accuracy == <<SumPredictions(classifier, pos, neg), Len(pos) + Len(neg)>>
       IN  IF IsBetter(accuracy, acc)
           THEN SearchFrom(f, pos, neg, i + 1, classifier, accuracy)
           ELSE SearchFrom(f, pos, neg, i + 1, best, acc)

\* adaboost_train: the weights (never read afterwards) and classifiers = []
AdaEnter ==
  /\ prog = "adaboost_train" /\ pc = "called"
  /\ classifiers' = <<>>
  /\ fi' = 1
  /\ pc' = "features"
  /\ UNCHANGED <<feature, result, featVars, detectVars, scanVars, prog,
                 pos_imgs, neg_imgs, features,
                 ti, pi, best_classifier, best_accuracy, exc>>

\* adaboost_train: the body of "for feature in features" for one feature
AdaFeature ==
  /\ prog = "adaboost_train" /\ pc = "features"
  /\ fi <= Len(features)
  /\ feature' = features[fi]
  /\ IF DivisionRaises(Len(pos_imgs), Len(neg_imgs))
     THEN /\ exc' = "ZeroDivisionError"
          /\ pc' = "raised"
          /\ UNCHANGED <<classifiers, fi>>
     ELSE /\ classifiers' = Append(classifiers,
                SearchFrom(features[fi], pos_imgs, neg_imgs, 1, None,
                           InitialBestAccuracy))
          /\ fi' = fi + 1
          /\ UNCHANGED <<exc, pc>>
  /\ UNCHANGED <<result, featVars, detectVars, scanVars, prog,
                 pos_imgs, neg_imgs, features, ti, pi,
                 best_classifier, best_accuracy>>

\* adaboost_train: return classifiers
AdaReturn ==
  /\ prog = "adaboost_train" /\ pc = "features"
  /\ fi > Len(features)
  /\ result' = classifiers
  /\ pc' = "returned"
  /\ UNCHANGED <<feature, featVars, trainVars, detectVars, scanVars>>

NextTrain ==
  \/ TrainEnter \/ TrainCandidate \/ TrainReturn
  \/ AdaEnter \/ AdaFeature \/ AdaReturn

SpecTrain == InitTrain /\ [][NextTrain]_vars

(***************************************************************************)
(* Properties of the trainers                                              *)
(***************************************************************************)
\* candidate i of the enumeration: thresholds ascending, and for each
\* threshold polarity +1 before polarity -1
CandidateAt(f, i) ==
  WeakClassifier(f, Thresholds[((i + 1) \div 2)], IF i % 2 = 1 THEN 1 ELSE -1)

NumCandidates == 2 * LinspaceNum

\* the score of a candidate on the training set of the state:
\* (positives predicted 1 + negatives predicted 0) / total sample count
Score(c) ==
  <<Cardinality({i \in 1..Len(pos_imgs) :
                   predict(c, integral_image(pos_imgs[i])) = 1})
    + Cardinality({i \in 1..Len(neg_imgs) :
                   predict(c, integral_image(neg_imgs[i])) = 0}),
    Len(pos_imgs) + Len(neg_imgs)>>

\* the thresholds are 10 points evenly spaced from -1 to 1, ascending
ThresholdsEvenlySpaced ==
  /\ Len(Thresholds) = 10
  /\ Thresholds[1][1] = -1 * Thresholds[1][2]
  /\ Thresholds[10][1] = Thresholds[10][2]
  /\ \A k \in 1..9 :
       /\ RatLess(Thresholds[k], Thresholds[k + 1])
       /\ Thresholds[k][2] = Thresholds[k + 1][2]
       /\ Thresholds[k + 1][1] - Thresholds[k][1] = Thresholds[2][1] - Thresholds[1][1]

\* C7: what train_classifier returns is one of the 20 candidates (10 evenly
\* spaced thresholds over [-1,1] crossed with polarity +1, -1), its score is
\* greater than or equal to the score of every candidate, and every candidate
\* enumerated before it has a strictly smaller score (the first maximal one).
C7_TrainerReturnsFirstBest ==
  (prog = "train_classifier" /\ pc = "returned") =>
    /\ ThresholdsEvenlySpaced
    /\ \E i \in 1..NumCandidates :
         /\ result = CandidateAt(feature, i)
         /\ \A j \in 1..NumCandidates :
              ~RatLess(Score(result), Score(CandidateAt(feature, j)))
         /\ \A j \in 1..(i - 1) :
              RatLess(Score(CandidateAt(feature, j)), Score(result))

\* C7 witness: both sets are non-empty, the trainer returned a candidate that
\* is not the first of the enumeration, and a later candidate ties with it.
C7_Witness ==
  /\ prog = "train_classifier" /\ pc = "returned"
  /\ pos_imgs # <<>> /\ neg_imgs # <<>>
  /\ \E i \in 2..NumCandidates :
       /\ result = CandidateAt(feature, i)
       /\ \E j \in (i + 1)..NumCandidates :
            Score(CandidateAt(feature, j)) = Score(result)

\* C9 (as claimed): train_classifier called with zero positive samples or with
\* zero negative samples never returns a classifier.
C9_EmptySetNeverReturns ==
  (prog = "train_classifier" /\ (pos_imgs = <<>> \/ neg_imgs = <<>>)) =>
    pc # "returned"

\* C9 (amended): train_classifier raises (a ZeroDivisionError, on the first
\* candidate) exactly when both sets are empty; with only one of the two sets
\* empty it raises nothing and returns a classifier.
C9_RaisesOnlyWhenBothEmpty ==
  prog = "train_classifier" =>
    /\ pc = "raised" =>
         /\ pos_imgs = <<>> /\ neg_imgs = <<>>
         /\ exc = "ZeroDivisionError" /\ result = None
    /\ pc = "returned" =>
         /\ pos_imgs # <<>> \/ neg_imgs # <<>>
         /\ exc = NoExc /\ result # None
    /\ (pos_imgs = <<>> /\ neg_imgs = <<>> /\ pc = "candidates") =>
         (ti = 1 /\ pi = 1)

\* C9 witness: called with both sets empty, the trainer has raised.
C9_Witness ==
  /\ prog = "train_classifier" /\ pc = "raised"
  /\ pos_imgs = <<>> /\ neg_imgs = <<>>
  /\ exc = "ZeroDivisionError"

\* C10: with at least one sample, some candidate scores above 0, so
\* train_classifier never returns None, and adaboost_train returns exactly one
\* classifier, not None, per feature, in feature order.
C10_ClassifierAlwaysChosen ==
  /\ (prog = "train_classifier" /\ Len(pos_imgs) + Len(neg_imgs) > 0) =>
       /\ pc # "raised"
       /\ \E i \in 1..NumCandidates :
            RatLess(InitialBestAccuracy, Score(CandidateAt(feature, i)))
       /\ pc = "returned" => result # None
  /\ (prog = "adaboost_train" /\ Len(pos_imgs) + Len(neg_imgs) > 0) =>
       /\ pc # "raised"
       /\ \A k \in 1..Len(classifiers) :
            classifiers[k] # None /\ classifiers[k].feature = features[k]
       /\ pc = "returned" =>
            /\ result = classifiers
            /\ Len(result) = Len(features)

\* C10 witness: adaboost_train, given negatives only and two features, has
\* returned two classifiers.
C10_Witness ==
  /\ prog = "adaboost_train" /\ pc = "returned"
  /\ pos_imgs = <<>> /\ neg_imgs # <<>>
  /\ Len(features) = 2 /\ Len(result) = 2

(***************************************************************************)
(* CascadeStage, HaarCascade.detect and detect_faces                       *)
(***************************************************************************)
CascadeStage(clfs, threshold) == [classifiers |-> clfs, threshold |-> threshold]

\* sum(clf.predict(integral_image) for clf in self.classifiers)
StageSum(self, img) ==
  SumFn([k \in 1..Len(self.classifiers) |-> predict(self.classifiers[k], img)],
        1, Len(self.classifiers))

\* a mutant of classify: stage_sum > self.threshold
classify_strict(self, img) == StageSum(self, img) > self.threshold

\* CascadeStage.classify: stage_sum >= self.threshold
classify(self, img) == StageSum(self, img) >= self.threshold

\* the predict calls classify makes for stage number n, in order
StageCalls(self, n) == [k \in 1..Len(self.classifiers) |-> <<n, k>>]

\* the images detection is run on: 1x2 grids <<1, b>>
DetectImages == TrainSamples

\* the classifiers of the enumerated cascades, on the two-rect feature over a
\* whole 1x2 image: response < -1/9, response > -1/9, response < 1
DetectClassifiers ==
  LET f == HaarFeature("two-rect", <<0, 0>>, 2, 1)
  IN  << WeakClassifier(f, Thresholds[5], 1),
         WeakClassifier(f, Thresholds[5], -1),
         WeakClassifier(f, Thresholds[LinspaceNum], 1) >>

\* the stages of the enumerated cascades: no, one or two classifiers, with a
\* stage threshold below, at and above what they can reach
StagePool ==
  { CascadeStage(cs, t) :
      cs \in { <<>>, <<DetectClassifiers[1]>>, <<DetectClassifiers[2]>>,
               <<DetectClassifiers[1], DetectClassifiers[3]>>,
               <<DetectClassifiers[3], DetectClassifiers[2]>> },
      t \in {0, 1, 2} }

\* largest number of stages (detect) and of classifiers (detect_faces)
MaxStages == 2

InitDetect ==
  /\ IdleFeature /\ IdleTrain /\ IdleScan
  /\ prog \in {"detect", "detect_faces"}
  /\ image \in DetectImages
  /\ IF prog = "detect"
     THEN cascade \in SeqsUpTo(StagePool, MaxStages)
     ELSE cascade \in SeqsUpTo({DetectClassifiers[k] : k \in 1..3}, MaxStages)
  /\ pc = "called"
  /\ integral_img = None /\ si = 0 /\ evaluated = <<>>
  /\ feature = None /\ result = None

\* detect, detect_faces: the integral image is built once, before the loop
DetectEnter ==
  /\ prog \in {"detect", "detect_faces"} /\ pc = "called"
  /\ integral_img' = integral_image(image)
  /\ si' = 1
  /\ pc' = "stages"
  /\ UNCHANGED <<feature, result, featVars, trainVars, scanVars, image, cascade,
                 evaluated>>

\* a mutant of DetectStage: a rejecting stage does not end the loop
DetectStageNoReturn ==
  /\ prog = "detect" /\ pc = "stages"
  /\ si <= Len(cascade)
  /\ evaluated' = evaluated \o StageCalls(cascade[si], si)
  /\ si' = si + 1
  /\ IF ~classify(cascade[si], integral_img)
     THEN result' = FALSE
     ELSE UNCHANGED result
  /\ UNCHANGED <<pc, feature, featVars, trainVars, scanVars, image, cascade,
                 integral_img>>

\* HaarCascade.detect: the body of "for stage in self.stages" for one stage
DetectStage ==
  /\ prog = "detect" /\ pc = "stages"
  /\ si <= Len(cascade)
  /\ evaluated' = evaluated \o StageCalls(cascade[si], si)
  /\ IF ~classify(cascade[si], integral_img)
     THEN /\ result' = FALSE
          /\ pc' = "returned"
          /\ UNCHANGED si
     ELSE /\ si' = si + 1
          /\ UNCHANGED <<result, pc>>
  /\ UNCHANGED <<feature, featVars, trainVars, scanVars, image, cascade,
                 integral_img>>

\* detect_faces: the body of "for classifier in classifiers" for one classifier
FacesClassifier ==
  /\ prog = "detect_faces" /\ pc = "stages"
  /\ si <= Len(cascade)
  /\ evaluated' = Append(evaluated, <<si, 1>>)
  /\ IF predict(cascade[si], integral_img) = 0
     THEN /\ result' = FALSE
          /\ pc' = "returned"
          /\ UNCHANGED si
     ELSE /\ si' = si + 1
          /\ UNCHANGED <<result, pc>>
  /\ UNCHANGED <<feature, featVars, trainVars, scanVars, image, cascade,
                 integral_img>>

\* detect, detect_faces: the loop ended without a rejection: return True
DetectAccept ==
  /\ prog \in {"detect", "detect_faces"} /\ pc = "stages"
  /\ si > Len(cascade)
  /\ result' = TRUE
  /\ pc' = "returned"
  /\ UNCHANGED <<feature, featVars, trainVars, scanVars, image, cascade,
                 integral_img, si, evaluated>>

NextDetect == DetectEnter \/ DetectStage \/ FacesClassifier \/ DetectAccept

SpecDetect == InitDetect /\ [][NextDetect]_vars

(***************************************************************************)
(* Properties of detection                                                 *)
(***************************************************************************)
\* stage (detect) or classifier (detect_faces) number n passes on the image
Passes(n) ==
  IF prog = "detect"
  THEN Cardinality({k \in 1..Len(cascade[n].classifiers) :
                      predict(cascade[n].classifiers[k], integral_image(image)) = 1})
         >= cascade[n].threshold
  ELSE predict(cascade[n], integral_image(image)) = 1

\* the predict calls of stage (or classifier) number n, in declaration order
CallsOf(n) ==
  IF prog = "detect"
  THEN [k \in 1..Len(cascade[n].classifiers) |-> <<n, k>>]
  ELSE << <<n, 1>> >>

RECURSIVE CallsUpTo(_)
CallsUpTo(n) == IF n = 0 THEN <<>> ELSE CallsUpTo(n - 1) \o CallsOf(n)

\* the calls made so far are those of stages 1..n, in declaration order, for
\* an n such that stages 1..n-1 all passed
InOrderAndGated ==
  \E n \in 0..Len(cascade) :
    /\ evaluated = CallsUpTo(n)
    /\ \A j \in 1..(n - 1) : Passes(j)

\* C1: the stages are evaluated strictly in declaration order, stage k+1 only
\* after stages 1..k have all passed, and once a stage has rejected no further
\* classifier is ever evaluated.
C1_ShortCircuit ==
  /\ [](prog \in {"detect", "detect_faces"} => InOrderAndGated)
  /\ [][(\E n \in 1..Len(cascade) :
           evaluated = CallsUpTo(n) /\ ~Passes(n)) => evaluated' = evaluated]_vars

\* C1 witness: stage 1 has one classifier and rejected, stage 2 has a
\* classifier, and detect returned with stage 1's call as the only call made.
C1_Witness ==
  /\ prog = "detect" /\ pc = "returned" /\ result = FALSE
  /\ Len(cascade) = 2
  /\ Len(cascade[1].classifiers) = 1 /\ Len(cascade[2].classifiers) > 0
  /\ evaluated = << <<1, 1>> >>

\* C2: detect returns true if and only if every stage passes, a stage passing
\* exactly when the number of its classifiers that predict 1 on the integral
\* image of the image is >= the stage threshold; a cascade without stages
\* accepts, and what is returned is one of True and False.
C2_DetectIffAllStagesPass ==
  (prog = "detect" /\ pc = "returned") =>
    /\ result \in BOOLEAN
    /\ result <=> \A n \in 1..Len(cascade) : Passes(n)
    /\ cascade = <<>> => result = TRUE

\* C2 witness: a two-stage cascade accepted, the second stage with exactly as
\* many classifiers predicting 1 as its threshold (2) asks for.
C2_Witness ==
  /\ prog = "detect" /\ pc = "returned" /\ result = TRUE
  /\ Len(cascade) = 2
  /\ cascade[2].threshold = 2
  /\ StageSum(cascade[2], integral_img) = 2

(***************************************************************************)
(* sliding_window                                                          *)
(***************************************************************************)
\* HaarCascade.detect as one call: stages n, n+1, ... on integral image img
RECURSIVE DetectLoop(_, _, _)
DetectLoop(stages, img, n) ==
  IF n > Len(stages) THEN TRUE
  ELSE IF ~classify(stages[n], img) THEN FALSE
  ELSE DetectLoop(stages, img, n + 1)

detect(stages, img) == DetectLoop(stages, integral_image(img), 1)

\* window_size=(24, 24) and step_size=4, the defaults of sliding_window
DefaultWindow == 24

DefaultStep == 4

\* a mutant of RangeStop: the last placement is included
RangeStopInclusive(size, win) == size - win + 1

\* the stop of range(0, image.shape[i] - window_size[1-i], step_size)
RangeStop(size, win) == size - win

\* the scanned images: h x w grids over 0..2, constant along the columns
\* (seed 0) or along the anti-diagonals (seed 1)
ScanImage(h, w, seed) ==
  MkArray(h, w, [r \in 0..(h-1) |-> [c \in 0..(w-1) |-> (r * seed + c) % 3]])

\* the scanning cascades: no stage (accepts every window), a stage nothing
\* passes, and a stage that passes when the window's pixel (0, 1) is not 0
ScanCascades ==
  { <<>>,
    <<CascadeStage(<<>>, 1)>>,
    <<CascadeStage(<<WeakClassifier(HaarFeature("two-rect", <<0, 0>>, 2, 1),
                                    Thresholds[5], 1)>>, 1)>> }

\* largest number of rows and of columns of an enumerated scanned image
MaxScanDim == 5
\* largest width and height of an enumerated window
MaxWindow == 2
\* largest enumerated step
MaxStep == 2

\* <<image rows, image columns, window width, window height, step>>: the
\* enumerated scans, and the scan of a 28x28 image with the default window
\* and step
ScanConfigs ==
  ((1..MaxScanDim) \X (1..MaxScanDim) \X (1..MaxWindow) \X (1..MaxWindow)
     \X (1..MaxStep))
  \cup { <<DefaultWindow + DefaultStep, DefaultWindow + DefaultStep,
           DefaultWindow, DefaultWindow, DefaultStep>> }

InitScan ==
  /\ IdleFeature /\ IdleTrain
  /\ prog = "sliding_window"
  /\ \E q \in ScanConfigs, seed \in {0, 1} :
       /\ image = ScanImage(q[1], q[2], seed)
       /\ window_size = <<q[3], q[4]>>
       /\ step_size = q[5]
  /\ cascade \in ScanCascades
  /\ pc = "called"
  /\ integral_img = None /\ si = 0 /\ evaluated = <<>>
  /\ win_y = 0 /\ win_x = 0 /\ visited = <<>> /\ detected_regions = <<>>
  /\ feature = None /\ result = None

\* sliding_window: detected_regions = [] and the two ranges start at 0
ScanEnter ==
  /\ prog = "sliding_window" /\ pc = "called"
  /\ detected_regions' = <<>>
  /\ win_y' = 0 /\ win_x' = 0
  /\ pc' = "scanning"
  /\ UNCHANGED <<feature, result, featVars, trainVars, detectVars, window_size,
                 step_size, visited>>

\* sliding_window: the body of the inner loop for the window at (x, y)
ScanWindow ==
  /\ prog = "sliding_window" /\ pc = "scanning"
  /\ win_y < RangeStop(NRows(image), window_size[2])
  /\ win_x < RangeStop(NCols(image), window_size[1])
  /\ LET window == Slice(image, win_y, win_y + window_size[2],
                                win_x, win_x + window_size[1])
     IN  /\ visited' = Append(visited, <<win_x, win_y>>)
         /\ IF detect(cascade, window)
            THEN detected_regions' =
                   Append(detected_regions,
                          <<win_x, win_y, window_size[1], window_size[2]>>)
            ELSE UNCHANGED detected_regions
  /\ win_x' = win_x + step_size
  /\ UNCHANGED <<pc, feature, result, featVars, trainVars, detectVars,
                 window_size, step_size, win_y>>

\* sliding_window: the inner range is exhausted: next y, x from 0 again
ScanNextRow ==
  /\ prog = "sliding_window" /\ pc = "scanning"
  /\ win_y < RangeStop(NRows(image), window_size[2])
  /\ win_x >= RangeStop(NCols(image), window_size[1])
  /\ win_y' = win_y + step_size
  /\ win_x' = 0
  /\ UNCHANGED <<pc, feature, result, featVars, trainVars, detectVars,
                 window_size, step_size, visited, detected_regions>>

\* sliding_window: the outer range is exhausted: return detected_regions
ScanReturn ==
  /\ prog = "sliding_window" /\ pc = "scanning"
  /\ win_y >= RangeStop(NRows(image), window_size[2])
  /\ result' = detected_regions
  /\ pc' = "returned"
  /\ UNCHANGED <<feature, featVars, trainVars, detectVars, scanVars>>

NextScan == ScanEnter \/ ScanWindow \/ ScanNextRow \/ ScanReturn

SpecScan == InitScan /\ [][NextScan]_vars

(***************************************************************************)
(* Properties of sliding_window                                            *)
(***************************************************************************)
\* the origins of the claim: multiples of the step strictly below
\* image_width - w (x) and image_height - h (y)
ExpectedOrigins ==
  { o \in (0..NCols(image)) \X (0..NRows(image)) :
      /\ o[1] % step_size = 0 /\ o[1] < NCols(image) - window_size[1]
      /\ o[2] % step_size = 0 /\ o[2] < NRows(image) - window_size[2] }

\* origin a comes before origin b in row-major order
RowMajorBefore(a, b) == a[2] < b[2] \/ (a[2] = b[2] /\ a[1] < b[1])

\* the detector accepts the window of the image at origin o, judged on the
\* window's pixels copied out one by one
AcceptedAt(o) ==
  detect(cascade,
         MkArray(window_size[2], window_size[1],
                 [r \in 0..(window_size[2]-1) |-> [c \in 0..(window_size[1]-1) |->
                    image.data[o[2] + r][o[1] + c]]]))

\* the subsequence of origins q the detector accepts, as (x, y, w, h)
RECURSIVE AcceptedOf(_)
AcceptedOf(q) ==
  IF q = <<>> THEN <<>>
  ELSE (IF AcceptedAt(Head(q))
        THEN << <<Head(q)[1], Head(q)[2], window_size[1], window_size[2]>> >>
        ELSE <<>>) \o AcceptedOf(Tail(q))

\* C3: sliding_window runs the detector on exactly the origins (x, y) with y
\* and x multiples of the step strictly below image_height - h and
\* image_width - w, in row-major order, and returns in that order exactly the
\* (x, y, w, h) of those the detector accepted; every visited window lies
\* inside the image, and an image no larger than the window yields nothing.
C3_ScanVisitsGridRowMajor ==
  prog = "sliding_window" =>
    /\ \A i \in 1..Len(visited) :
         /\ visited[i][1] + window_size[1] <= NCols(image)
         /\ visited[i][2] + window_size[2] <= NRows(image)
    /\ \A i, j \in 1..Len(visited) : i < j => RowMajorBefore(visited[i], visited[j])
    /\ pc = "returned" =>
         /\ {visited[i] : i \in 1..Len(visited)} = ExpectedOrigins
         /\ result = AcceptedOf(visited)
         /\ (NRows(image) <= window_size[2] \/ NCols(image) <= window_size[1])
              => (visited = <<>> /\ result = <<>>)

\* C3 witness: a finished scan over at least two rows and two columns of
\* origins, with a step above 1, that accepted some windows and rejected others.
C3_Witness ==
  /\ prog = "sliding_window" /\ pc = "returned"
  /\ step_size > 1
  /\ \E i, j \in 1..Len(visited) :
       visited[i][1] # visited[j][1] /\ visited[i][2] # visited[j][2]
  /\ result # <<>> /\ Len(result) < Len(visited)

\* the scan of the scanner-boundary scenario: 28x28, window 24x24, stride 4
BoundaryScan ==
  /\ prog = "sliding_window"
  /\ image.shape = <<28, 28>>
  /\ window_size = <<24, 24>>
  /\ step_size = 4

\* C4 (as claimed): the scan of a 28x28 image with a 24x24 window and stride 4
\* visits the origins (0,0) and (4,0), and never an origin (24,0) or beyond.
C4_VisitsOriginAndFour ==
  (BoundaryScan /\ pc = "returned") =>
    /\ \E i \in 1..Len(visited) : visited[i] = <<0, 0>>
    /\ \E i \in 1..Len(visited) : visited[i] = <<4, 0>>
    /\ \A i \in 1..Len(visited) : visited[i][1] < 24 /\ visited[i][2] < 24

\* C4 (amended): that scan visits the origin (0,0) and no other, so never
\* (4,0), (24,0) or beyond, and records (0,0,24,24) exactly when the detector
\* accepts that window.
C4_VisitsOriginOnly ==
  BoundaryScan =>
    /\ \A i \in 1..Len(visited) : visited[i] = <<0, 0>>
    /\ pc = "returned" =>
         /\ visited = << <<0, 0>> >>
         /\ result = IF AcceptedAt(<<0, 0>>) THEN << <<0, 0, 24, 24>> >> ELSE <<>>

\* C4 witness: that scan has returned, with the window at (0,0) recorded.
C4_Witness ==
  /\ BoundaryScan /\ pc = "returned"
  /\ result = << <<0, 0, 24, 24>> >>

====
